---- MODULE Spec2Model ----
(***************************************************************************)
(* State-machine model of the Cozy Condo Supabase setup/verification       *)
(* scripts.  One run of one script is one behaviour: Init picks the script *)
(* and the environment (is the schema file present), every blocking HTTP   *)
(* or database call is one step whose response is chosen by the service.   *)
(***************************************************************************)
EXTENDS Integers, Sequences, FiniteSets, TLC

VARIABLES
    script,         \* the script that was started
    pc,             \* position in the script
    idx,            \* index of the current for-loop iteration
    log,            \* every HTTP request sent so far, in order, with its outcome
    out,            \* the messages printed so far
    exitCode,       \* process exit status, -1 while running
    ret,            \* value returned by the script's top-level function
    faults,         \* number of faulty responses so far
    raised,         \* the uncaught exception that ended the run, "none" otherwise
    schema_file,    \* what open(schema_path) found: "unread" before the call,
                    \* then "present", "missing" or "denied"
    existing_bucket_names,   \* setup_storage.py
    success_count,           \* setup_storage.py
    counted,        \* buckets for which success_count was incremented
    all_tables_exist,        \* verify_schema.py, verify_setup.py
    existing_tables,         \* execute_schema_api.py: <<table, count>> pairs
    table_results,           \* verify_database.py: tables whose check returned True
    results,        \* detailed_data_check.py: what get_data returned per table
    pending,        \* final_verification.py: listed buckets still to visit
    report,         \* schema_verification.py: what main reported per table
    conn,           \* execute_schema.py: "none", "open", "closed"
    sql,            \* execute_schema.py: statements passed to cursor.execute
    property_count, \* execute_schema.py
    settings_count  \* execute_schema.py

vars == <<script, pc, idx, log, out, exitCode, ret, faults, raised, schema_file,
          existing_bucket_names, success_count, counted, all_tables_exist,
          existing_tables, table_results, results, pending, report, conn, sql,
          property_count, settings_count>>

envVars == <<script>>
ssVars  == <<existing_bucket_names, success_count, counted>>
tblVars == <<all_tables_exist, existing_tables, table_results, results, pending,
            report>>
dbVars  == <<conn, sql, property_count, settings_count>>
fileVars == <<schema_file>>

(***************************************************************************)
(* Bounds of the model.                                                    *)
(***************************************************************************)
\* the service fails at most this many requests of a run (non-2xx status,
\* a raised exception, or a body that is not JSON)
MaxFaults == 2

\* the same budget for a run of verify_database.py, which sends 21 requests
MaxVerifierFaults == 1

(***************************************************************************)
(* Module-level constants of the scripts.                                  *)
(***************************************************************************)
Scripts == {"setup_storage", "verify_schema", "detailed_data_check",
            "final_verification", "execute_schema_api", "execute_schema",
            "verify_setup", "verify_database", "schema_verification"}

SERVICE_ROLE_KEY == "service_role"
ANON_KEY == "anon"

\* buckets = [...] of setup_storage_buckets: id and public flag
buckets == << [id |-> "property-photos", public |-> TRUE],
              [id |-> "blog-images", public |-> TRUE] >>

\* names a bucket listing of the storage service may hold
BucketNames == {"property-photos", "blog-images", "uploads"}

\* tables_to_check / tables / expected_tables / tables_to_verify
tables_to_check == <<"properties", "property_photos", "calendar_events",
                     "blog_posts", "site_settings">>

\* order of the get_data calls in detailed_data_check.main
reader_tables == <<"properties", "site_settings", "property_photos",
                   "calendar_events", "blog_posts">>

(***************************************************************************)
(* Requests and responses.                                                 *)
(***************************************************************************)
NoBody == [id |-> "", public |-> FALSE]

\* a request as requests.get/post/put sends it: method, URL (endpoint, path
\* below it, query string), the two credential headers and the JSON payload
Request(m, api, res, q, key, body) ==
    [m |-> m, api |-> api, res |-> res, q |-> q,
     apikey |-> key, bearer |-> key, body |-> body]

\* GET {base_url}/storage/v1/bucket
BucketList(key) == Request("GET", "/storage/v1/bucket", "", "", key, NoBody)

\* response.status_code values the service may give
Statuses == {200, 201, 401, 404}

\* how a request ended: "fail" (a non-2xx status, or the call raised),
\* "badjson" (a 2xx status with a body that is not JSON), or "ok"
Outcome(r) ==
    IF r.exc \/ r.status \notin {200, 201} THEN "fail"
    ELSE IF r.body = "bad" THEN "badjson"
    ELSE "ok"

\* a response the service counts against its failure budget
Faulty(r) == Outcome(r) # "ok"

\* the failure budget of the running script
FaultBudget == IF script = "verify_database" THEN MaxVerifierFaults ELSE MaxFaults

Allowed(r) == Faulty(r) => faults < FaultBudget

\* the non-2xx responses: a response was received and its status is not 2xx
Rejected(r) == ~r.exc /\ r.status \notin {200, 201}

\* one entry of the request log: the request, how it ended, whether it was
\* answered with a non-2xx status, and which parts of such a response the
\* code at the call site prints ("status", "body", or the "message" field)
Logged(rq, r, parts) ==
    [rq |-> rq, res |-> Outcome(r), rejected |-> Rejected(r),
     shown |-> IF Rejected(r) THEN parts ELSE {}]

Send(rq, r, parts) ==
    /\ log' = Append(log, Logged(rq, r, parts))
    /\ faults' = IF Faulty(r) THEN faults + 1 ELSE faults

Emit(msgs) == out' = out \cup msgs

\* an uncaught exception: traceback, interpreter exits with status 1
Crash(e) ==
    /\ pc' = "crashed"
    /\ raised' = e
    /\ exitCode' = 1

\* sys.exit(code)
Exit(code) ==
    /\ pc' = "done"
    /\ raised' = raised
    /\ exitCode' = code

Finish_ExitOne == Exit(1)

\* falling off the end of the script: exit status 0
Finish == Exit(0)

Init ==
    /\ script \in Scripts
    /\ pc = "start"
    /\ idx = 1
    /\ log = <<>>
    /\ out = {}
    /\ exitCode = -1
    /\ ret = "none"
    /\ faults = 0
    /\ raised = "none"
    /\ schema_file = "unread"
    /\ existing_bucket_names = {}
    /\ success_count = 0
    /\ counted = {}
    /\ all_tables_exist = TRUE
    /\ existing_tables = <<>>
    /\ table_results = {}
    /\ results = <<>>
    /\ pending = <<>>
    /\ report = <<>>
    /\ conn = "none"
    /\ sql = <<>>
    /\ property_count = 0
    /\ settings_count = 0

(***************************************************************************)
(* setup_storage.py                                                        *)
(***************************************************************************)
\* responses to GET /storage/v1/bucket: raised, a status, and for 200 either
\* a body that parses to bucket objects or one on which json()/["name"] raises
ListResponses ==
    [exc : {TRUE}, status : {0}, body : {"none"}, names : {{}}]
    \cup [exc : {FALSE}, status : {401, 404}, body : {"json"}, names : {{}}]
    \cup [exc : {FALSE}, status : {200}, body : {"bad"}, names : {{}}]
    \cup [exc : {FALSE}, status : {200}, body : {"list"}, names : SUBSET BucketNames]

\* responses to POST/PUT: raised or a status
PlainResponses ==
    [exc : {TRUE}, status : {0}, body : {"none"}]
    \cup [exc : {FALSE}, status : Statuses, body : {"json"}]

\* the bucket objects of a listing, in the order the service lists them
BucketOrder == <<"blog-images", "property-photos", "uploads">>

Listing(names) == SelectSeq(BucketOrder, LAMBDA b : b \in names)

\* the try block of lines 39-50
ListedNames(r) ==
    IF ~r.exc /\ r.status = 200 /\ r.body = "list" THEN r.names ELSE {}

SS_List ==
    /\ script = "setup_storage" /\ pc = "start"
    /\ \E r \in ListResponses :
        /\ Allowed(r)
        /\ Send(BucketList(SERVICE_ROLE_KEY), r, {"status"})
        /\ existing_bucket_names' = ListedNames(r)
        /\ Emit(IF r.exc \/ (r.status = 200 /\ r.body = "bad")
                    THEN {<<"Error checking buckets", "">>}
                 ELSE IF r.status = 200 THEN {<<"Existing buckets", "">>}
                 ELSE {<<"Could not retrieve existing buckets", "">>})
    /\ success_count' = 0
    /\ idx' = 1
    /\ pc' = "ss_bucket"
    /\ UNCHANGED <<envVars, fileVars, exitCode, ret, raised, counted, tblVars, dbVars>>

\* end of one iteration of "for bucket in buckets"
SS_NextBucket ==
    IF idx < Len(buckets)
        THEN idx' = idx + 1 /\ pc' = "ss_bucket"
        ELSE idx' = idx /\ pc' = "ss_summary"

AlreadyExists_Never(b) == FALSE

AlreadyExists_Always(b) == TRUE

\* the test of line 57
AlreadyExists(b) == b.id \in existing_bucket_names

\* lines 57-60
SS_Existing ==
    /\ script = "setup_storage" /\ pc = "ss_bucket"
    /\ AlreadyExists(buckets[idx])
    /\ Emit({<<"already exists", buckets[idx].id>>})
    /\ success_count' = success_count + 1
    /\ counted' = counted \cup {buckets[idx].id}
    /\ SS_NextBucket
    /\ UNCHANGED <<envVars, fileVars, log, exitCode, ret, faults, raised,
                   existing_bucket_names, tblVars, dbVars>>

CreatePayload_Private(b) == [id |-> b.id, public |-> FALSE]

\* create_payload of lines 64-68
CreatePayload(b) == [id |-> b.id, public |-> b.public]

CreateSucceeded_Only200(r) == r.status = 200

CreateSucceeded_AnyStatus(r) == ~r.exc

\* the test of line 77
CreateSucceeded(r) == r.status \in {200, 201}

\* lines 62-79 and 96-105
SS_Create ==
    /\ script = "setup_storage" /\ pc = "ss_bucket"
    /\ ~AlreadyExists(buckets[idx])
    /\ \E r \in PlainResponses :
        /\ Allowed(r)
        /\ Send(Request("POST", "/storage/v1/bucket", "", "", SERVICE_ROLE_KEY,
                        CreatePayload(buckets[idx])), r,
                {"status", "body"})
        /\ IF r.exc
              THEN /\ Emit({<<"Exception creating bucket", buckets[idx].id>>})
                   /\ SS_NextBucket
                   /\ UNCHANGED <<success_count, counted>>
           ELSE IF CreateSucceeded(r)
              THEN /\ Emit({<<"Successfully created bucket", buckets[idx].id>>})
                   /\ success_count' = success_count + 1
                   /\ counted' = counted \cup {buckets[idx].id}
                   /\ IF buckets[idx].public
                         THEN idx' = idx /\ pc' = "ss_put"
                         ELSE SS_NextBucket
           ELSE /\ Emit({<<"Failed to create bucket", buckets[idx].id>>})
                /\ SS_NextBucket
                /\ UNCHANGED <<success_count, counted>>
    /\ UNCHANGED <<envVars, fileVars, exitCode, ret, raised, existing_bucket_names,
                   tblVars, dbVars>>

\* public_payload of line 83
PublicPayload == [id |-> "", public |-> TRUE]

\* lines 82-94, and the except of line 104 when the PUT raises
SS_Put ==
    /\ script = "setup_storage" /\ pc = "ss_put"
    /\ \E r \in PlainResponses :
        /\ Allowed(r)
        /\ Send(Request("PUT", "/storage/v1/bucket", buckets[idx].id, "",
                        SERVICE_ROLE_KEY, PublicPayload), r, {})
        /\ Emit(IF r.exc THEN {<<"Exception creating bucket", buckets[idx].id>>}
                 ELSE IF r.status = 200 THEN {<<"Set bucket to public access", buckets[idx].id>>}
                 ELSE {<<"Warning: Could not set public access", buckets[idx].id>>})
    /\ SS_NextBucket
    /\ UNCHANGED <<envVars, fileVars, exitCode, ret, raised, ssVars, tblVars, dbVars>>

\* lines 107-124: the summary, the return value, and the discarded result
SS_Summary ==
    /\ script = "setup_storage" /\ pc = "ss_summary"
    /\ Emit(IF success_count = Len(buckets)
                THEN {<<"All storage buckets are ready", "">>}
                ELSE {<<"buckets are ready (partial)", "">>,
                      <<"create buckets manually", "">>})
    /\ ret' = IF success_count = Len(buckets) THEN "True" ELSE "False"
    /\ Finish
    /\ UNCHANGED <<envVars, fileVars, idx, log, faults, ssVars, tblVars, dbVars>>

(***************************************************************************)
(* Responses of the REST API to a table GET.                               *)
(***************************************************************************)
\* raised; a non-200 status with a JSON or plain-text error body; or 200 with
\* a body that is an empty list ("empty"), a list of complete rows ("rows"),
\* a list of rows with a null or absent field ("odd"), or not JSON ("bad")
TableResponses ==
    [exc : {TRUE}, status : {0}, body : {"none"}]
    \cup [exc : {FALSE}, status : {401, 404}, body : {"json", "text"}]
    \cup [exc : {FALSE}, status : {200}, body : {"empty", "rows", "odd", "bad"}]

TableGet(t, q, key) == Request("GET", "/rest/v1", t, q, key, NoBody)

(***************************************************************************)
(* verify_schema.py                                                        *)
(***************************************************************************)
\* end of one iteration of "for table in tables_to_check"
VS_NextTable ==
    IF idx < Len(tables_to_check)
        THEN idx' = idx + 1 /\ pc' = pc
        ELSE idx' = idx /\ pc' = "vs_summary"

TableAccessible_AnyStatus(r) == ~r.exc /\ r.body # "bad"

\* lines 33-51: does this response leave all_tables_exist untouched
TableAccessible(r) == ~r.exc /\ r.status = 200 /\ r.body # "bad"

\* lines 30-51; response.json() on a body that is not JSON raises an error
\* that is a RequestException in current releases of the HTTP library and a
\* plain ValueError (uncaught here) in older ones
VS_Table ==
    /\ script = "verify_schema" /\ pc = "start"
    /\ \E r \in TableResponses :
        /\ Allowed(r)
        /\ Send(TableGet(tables_to_check[idx], "limit=1", SERVICE_ROLE_KEY), r,
                IF r.body = "text" THEN {"status", "body"} ELSE {"status", "message"})
        /\ \/ /\ TableAccessible(r)
              /\ Emit({<<"exists and is accessible", "">>})
              /\ UNCHANGED <<all_tables_exist, exitCode, raised>>
              /\ VS_NextTable
           \/ /\ ~TableAccessible(r)
              /\ Emit(IF r.exc THEN {<<"Connection error", "">>}
                      ELSE IF r.status = 200
                         THEN {<<"exists and is accessible", "">>,
                               <<"Connection error", "">>}
                      ELSE {<<"Table Error status", "">>})
              /\ all_tables_exist' = FALSE
              /\ UNCHANGED <<exitCode, raised>>
              /\ VS_NextTable
           \/ /\ ~r.exc /\ r.status = 200 /\ r.body = "bad"
              /\ Emit({<<"exists and is accessible", "">>})
              /\ Crash("ValueError")
              /\ UNCHANGED <<all_tables_exist, idx>>
    /\ UNCHANGED <<envVars, fileVars, ret, ssVars, existing_tables, table_results,
                   results, pending, report, dbVars>>

\* lines 53-58 and 91-99
VS_Summary ==
    /\ script = "verify_schema" /\ pc = "vs_summary"
    /\ IF all_tables_exist
          THEN /\ Emit({<<"Schema verification completed successfully", "">>})
               /\ pc' = "vs_sample"
               /\ ret' = ret
          ELSE /\ Emit({<<"Schema verification failed", "">>,
                        <<"execute the schema manually", "">>})
               /\ pc' = "vs_exit"
               /\ ret' = "False"
    /\ UNCHANGED <<envVars, fileVars, idx, log, exitCode, faults, raised, ssVars, tblVars, dbVars>>

\* lines 60-72: the bare except swallows every error
VS_Sample ==
    /\ script = "verify_schema" /\ pc = "vs_sample"
    /\ \E r \in TableResponses :
        /\ Allowed(r)
        /\ Send(TableGet("properties", "", SERVICE_ROLE_KEY), r, {})
        /\ Emit(IF r.exc \/ (r.status = 200 /\ r.body = "bad")
                   THEN {<<"Could not check sample data", "">>}
                ELSE IF r.status = 200 /\ r.body = "empty"
                   THEN {<<"No sample properties found", "">>}
                ELSE IF r.status = 200
                   THEN {<<"Sample properties loaded", "">>}
                ELSE {})
    /\ pc' = "vs_settings"
    /\ UNCHANGED <<envVars, fileVars, idx, exitCode, ret, raised, ssVars, tblVars, dbVars>>

\* lines 74-90
VS_Settings ==
    /\ script = "verify_schema" /\ pc = "vs_settings"
    /\ \E r \in TableResponses :
        /\ Allowed(r)
        /\ Send(TableGet("site_settings", "", SERVICE_ROLE_KEY), r, {})
        /\ Emit(IF r.exc \/ (r.status = 200 /\ r.body = "bad")
                   THEN {<<"Could not check site settings", "">>}
                ELSE IF r.status = 200 /\ r.body = "empty"
                   THEN {<<"No site settings found", "">>}
                ELSE IF r.status = 200
                   THEN {<<"Site settings configured", "">>}
                ELSE {})
    /\ ret' = "True"
    /\ pc' = "vs_exit"
    /\ UNCHANGED <<envVars, fileVars, idx, exitCode, raised, ssVars, tblVars, dbVars>>

\* line 103: sys.exit(0 if success else 1)
ExitStatus(success) == IF success = "True" THEN 0 ELSE 1

\* lines 101-103
VS_Exit ==
    /\ script = "verify_schema" /\ pc = "vs_exit"
    /\ Exit(ExitStatus(ret))
    /\ UNCHANGED <<envVars, fileVars, idx, log, out, ret, faults, ssVars, tblVars, dbVars>>

(***************************************************************************)
(* detailed_data_check.py                                                  *)
(***************************************************************************)
GetDataResult_AnyStatus(r) == r.body

\* what get_data hands back (lines 22-27): the decoded list, or None
GetDataResult(r) == IF r.status = 200 THEN r.body ELSE "None"

\* what main prints for section i given the returned value (lines 36-98);
\* sections 3-5 have an else branch, sections 1-2 do not
SectionOutput(i, data) ==
    IF data \in {"rows", "odd"} THEN {<<"Total", reader_tables[i]>>}
    ELSE IF i >= 3 THEN {<<"No records found", reader_tables[i]>>}
    ELSE {}

\* prop.get('description', 'N/A')[:100] of lines 44 and 61 raises TypeError
\* when the column is null
SliceRaises(i, data) == i <= 2 /\ data = "odd"

\* one numbered section of main: the get_data call and the printing of its
\* result; get_data has no try/except, so an exception of requests.get or of
\* response.json() ends the run
DC_Section ==
    /\ script = "detailed_data_check" /\ pc = "start"
    /\ \E r \in TableResponses :
        /\ Allowed(r)
        /\ Send(TableGet(reader_tables[idx], "", SERVICE_ROLE_KEY), r,
                {"status", "body"})
        /\ IF r.exc
              THEN /\ Crash("RequestException")
                   /\ UNCHANGED <<idx, out, results>>
           ELSE IF r.status = 200 /\ r.body = "bad"
              THEN /\ Crash("ValueError")
                   /\ UNCHANGED <<idx, out, results>>
           ELSE /\ results' = Append(results, GetDataResult(r))
                /\ IF SliceRaises(idx, GetDataResult(r))
                      THEN /\ Emit({<<"Total", reader_tables[idx]>>})
                           /\ Crash("TypeError")
                           /\ idx' = idx
                      ELSE /\ Emit(SectionOutput(idx, GetDataResult(r))
                                   \cup IF r.status # 200
                                           THEN {<<"Error fetching status body", reader_tables[idx]>>}
                                           ELSE {})
                           /\ IF idx < Len(reader_tables)
                                 THEN /\ idx' = idx + 1
                                      /\ UNCHANGED <<pc, exitCode, raised>>
                                 ELSE /\ idx' = idx
                                      /\ Finish
    /\ UNCHANGED <<envVars, fileVars, ret, ssVars, all_tables_exist, existing_tables,
                   table_results, pending, report, dbVars>>

(***************************************************************************)
(* final_verification.py                                                   *)
(***************************************************************************)
\* lines 14-35: one iteration of the loop of test_anon_access; the
\* try/except Exception covers the request and response.json()
FV_Anon ==
    /\ script = "final_verification" /\ pc = "start"
    /\ \E r \in TableResponses :
        /\ Allowed(r)
        /\ Send(TableGet(tables_to_check[idx], "", ANON_KEY), r, {"status"})
        /\ Emit(IF r.exc \/ (r.status = 200 /\ r.body = "bad")
                   THEN {<<"Anonymous Error", "">>}
                ELSE IF r.status = 200
                   THEN {<<"Anonymous can read", "">>}
                ELSE {<<"Anonymous access denied (Status)", "">>})
    /\ IF idx < Len(tables_to_check)
          THEN idx' = idx + 1 /\ pc' = pc
          ELSE idx' = idx /\ pc' = "fv_storage"
    /\ UNCHANGED <<envVars, fileVars, exitCode, ret, raised, ssVars, tblVars, dbVars>>

\* lines 42-54 and 70-73 of check_storage_access: the bucket listing
FV_Storage ==
    /\ script = "final_verification" /\ pc = "fv_storage"
    /\ \E r \in ListResponses :
        /\ Allowed(r)
        /\ Send(BucketList(SERVICE_ROLE_KEY), r, {"status"})
        /\ Emit(IF r.exc \/ (r.status = 200 /\ r.body = "bad")
                   THEN {<<"Storage API error", "">>}
                ELSE IF r.status = 200 THEN {<<"Storage API accessible", "">>}
                ELSE {<<"Storage API not accessible (status)", "">>})
        /\ pending' = Listing(ListedNames(r))
        /\ pc' = IF ListedNames(r) = {} THEN "fv_props" ELSE "fv_files"
    /\ UNCHANGED <<envVars, fileVars, idx, exitCode, ret, raised, ssVars, all_tables_exist,
                   existing_tables, table_results, results, report, dbVars>>

\* lines 56-68: one iteration of "for bucket in buckets"; an exception
\* leaves the loop through line 72
FV_Files ==
    /\ script = "final_verification" /\ pc = "fv_files"
    /\ \E r \in TableResponses : LET b == Head(pending) IN
        /\ Allowed(r)
        /\ Send(Request("POST", "/storage/v1/object/list", b, "", SERVICE_ROLE_KEY, NoBody), r, {"status"})
        /\ IF r.exc \/ (r.status = 200 /\ r.body = "bad")
              THEN /\ Emit({<<"bucket visibility", "">>, <<"Storage API error", "">>})
                   /\ pending' = <<>>
                   /\ pc' = "fv_props"
              ELSE /\ Emit({<<"bucket visibility", b>>,
                            IF r.status = 200 THEN <<"Files in bucket", b>>
                            ELSE <<"Could not list files (status)", b>>})
                   /\ pending' = Tail(pending)
                   /\ pc' = IF Tail(pending) = <<>> THEN "fv_props" ELSE pc
    /\ UNCHANGED <<envVars, fileVars, idx, exitCode, ret, raised, ssVars, all_tables_exist,
                   existing_tables, table_results, results, report, dbVars>>

\* lines 87-94 of get_sample_data_summary: no try/except; prop['name'] raises
\* KeyError on a row without the column
FV_Properties ==
    /\ script = "final_verification" /\ pc = "fv_props"
    /\ \E r \in TableResponses :
        /\ Allowed(r)
        /\ Send(TableGet("properties", "", SERVICE_ROLE_KEY), r, {})
        /\ IF r.exc THEN Crash("RequestException") /\ out' = out
           ELSE IF r.status = 200 /\ r.body = "bad"
              THEN Crash("ValueError") /\ out' = out
           ELSE IF r.status = 200 /\ r.body = "odd"
              THEN Crash("KeyError") /\ Emit({<<"Properties records", "">>})
           ELSE /\ Emit(IF r.status = 200 THEN {<<"Properties records", "">>} ELSE {})
                /\ pc' = "fv_settings"
                /\ UNCHANGED <<exitCode, raised>>
    /\ UNCHANGED <<envVars, fileVars, idx, ret, ssVars, tblVars, dbVars>>

\* lines 96-108
FV_Settings ==
    /\ script = "final_verification" /\ pc = "fv_settings"
    /\ \E r \in TableResponses :
        /\ Allowed(r)
        /\ Send(TableGet("site_settings", "", SERVICE_ROLE_KEY), r, {})
        /\ IF r.exc THEN Crash("RequestException") /\ out' = out
           ELSE IF r.status = 200 /\ r.body = "bad"
              THEN Crash("ValueError") /\ out' = out
           ELSE IF r.status = 200 /\ r.body = "odd"
              THEN Crash("KeyError") /\ Emit({<<"Site Settings: 1 record", "">>})
           ELSE /\ Emit(IF r.status = 200 /\ r.body = "rows"
                           THEN {<<"Site Settings: 1 record", "">>} ELSE {})
                /\ pc' = "fv_final"
                /\ UNCHANGED <<exitCode, raised>>
    /\ UNCHANGED <<envVars, fileVars, idx, ret, ssVars, tblVars, dbVars>>

\* lines 124-134 of main: the closing status block, printed unconditionally
FinalStatus ==
    {<<"VERIFICATION COMPLETE", "">>,
     <<"All 5 required tables exist", "">>,
     <<"Your Supabase database is ready for use", "">>}

FV_Final ==
    /\ script = "final_verification" /\ pc = "fv_final"
    /\ Emit(FinalStatus)
    /\ Finish
    /\ UNCHANGED <<envVars, fileVars, idx, log, ret, faults, ssVars, tblVars, dbVars>>

(***************************************************************************)
(* Responses to the count requests of execute_schema_api.py and            *)
(* verify_setup.py.                                                        *)
(***************************************************************************)
\* cr is the Content-Range header of a 200 response: absent, or "<range>/n"
\* whose part after the slash is a number ("3") or "*"
CountResponses ==
    [exc : {TRUE}, status : {0}, body : {"none"}, cr : {"absent"}]
    \cup [exc : {FALSE}, status : {401, 404}, body : {"json"}, cr : {"absent"}]
    \cup [exc : {FALSE}, status : {200}, body : {"empty"}, cr : {"absent", "3", "*"}]

CountQuery == "select=count&count=exact&limit=0"

\* response.headers.get('Content-Range', '0').split('/')[1] raises
\* IndexError when the header is absent: '0' has no slash
SplitRaises(r) == r.cr = "absent"

\* int(count) raises ValueError unless count is a decimal number
IntRaises(count) == count = "*"

(***************************************************************************)
(* execute_schema_api.py                                                   *)
(***************************************************************************)
\* lines 70-86: one iteration of the loop of check_if_tables_exist
EA_Table ==
    /\ script = "execute_schema_api" /\ pc = "start"
    /\ \E r \in CountResponses :
        /\ Allowed(r)
        /\ Send(TableGet(tables_to_check[idx], CountQuery, SERVICE_ROLE_KEY), r, {})
        /\ IF r.exc \/ (r.status = 200 /\ SplitRaises(r))
              THEN /\ Emit({<<"Error checking table", "">>})
                   /\ existing_tables' = existing_tables
           ELSE IF r.status = 200
              THEN /\ Emit({<<"Table exists with records", "">>})
                   /\ existing_tables' = Append(existing_tables, <<tables_to_check[idx], r.cr>>)
           ELSE /\ Emit({<<"Table does not exist or is not accessible", "">>})
                /\ existing_tables' = existing_tables
    /\ IF idx < Len(tables_to_check)
          THEN idx' = idx + 1 /\ pc' = pc
          ELSE idx' = idx /\ pc' = "ea_result"
    /\ UNCHANGED <<envVars, fileVars, exitCode, ret, raised, ssVars, all_tables_exist,
                   table_results, results, pending, report, dbVars>>

\* line 88
AllTablesExist == Len(existing_tables) = Len(tables_to_check)

\* the properties entry of existing_tables, read by the loop of lines 92-95
PropertiesCount ==
    LET hits == SelectSeq(existing_tables, LAMBDA e : e[1] = "properties")
    IN  IF hits = <<>> THEN "0" ELSE hits[1][2]

\* lines 88-101 of check_if_tables_exist: its return value, or the
\* ValueError of int(count) on line 93
EA_Check ==
    /\ script = "execute_schema_api" /\ pc = "ea_result"
    /\ IF AllTablesExist
          THEN IF IntRaises(PropertiesCount)
                  THEN /\ Emit({<<"All tables exist", "">>})
                       /\ Crash("ValueError")
                       /\ ret' = ret
                  ELSE /\ Emit({<<"All tables exist", "">>})
                       /\ ret' = "True"
                       /\ pc' = "ea_main"
                       /\ UNCHANGED <<exitCode, raised>>
          ELSE /\ Emit({<<"Only some tables exist", "">>})
               /\ ret' = "False"
               /\ pc' = "ea_main"
               /\ UNCHANGED <<exitCode, raised>>
    /\ UNCHANGED <<envVars, fileVars, idx, log, faults, ssVars, tblVars, dbVars>>

EA_Main_ExitZero ==
    /\ script = "execute_schema_api" /\ pc = "ea_main"
    /\ Emit({<<"Database schema is already set up", "">>})
    /\ Exit(0)
    /\ UNCHANGED <<envVars, fileVars, idx, log, ret, faults, ssVars, tblVars, dbVars>>

\* lines 108-113: the branch of the main block on the returned value
EA_Main ==
    /\ script = "execute_schema_api" /\ pc = "ea_main"
    /\ IF ret = "True"
          THEN /\ Emit({<<"Database schema is already set up", "">>})
               /\ Exit(0)
          ELSE /\ Emit({<<"Database schema needs to be set up", "">>})
               /\ pc' = "ea_read"
               /\ UNCHANGED <<exitCode, raised>>
    /\ UNCHANGED <<envVars, fileVars, idx, log, ret, faults, ssVars, tblVars, dbVars>>

\* lines 26-27 with read_schema_file, lines 9-17
EA_ReadSchema ==
    /\ script = "execute_schema_api" /\ pc = "ea_read"
    /\ schema_file' \in {"present", "missing", "denied"}
    /\ IF schema_file' = "present"
          THEN /\ Emit({<<"Reading schema file", "">>})
               /\ pc' = "ea_manual"
               /\ UNCHANGED <<exitCode, raised>>
       ELSE IF schema_file' = "missing"
          THEN /\ Emit({<<"Reading schema file", "">>,
                        <<"ERROR: Schema file not found", "">>})
               /\ Exit(1)
       ELSE /\ Emit({<<"Reading schema file", "">>})
            /\ Crash("PermissionError")
    /\ UNCHANGED <<envVars, idx, log, ret, faults, ssVars, tblVars, dbVars>>

\* lines 29-50: the three manual options and the schema text
ManualInstructions ==
    {<<"Direct SQL execution via API is not available", "">>,
     <<"OPTION 1 - Supabase Dashboard", "">>,
     <<"OPTION 2 - Local psql client", "">>,
     <<"OPTION 3 - Copy schema content", "">>}

\* lines 29-52 and 114
EA_Manual ==
    /\ script = "execute_schema_api" /\ pc = "ea_manual"
    /\ Emit(ManualInstructions)
    /\ Exit(1)
    /\ UNCHANGED <<envVars, fileVars, idx, log, ret, faults, ssVars, tblVars, dbVars>>

(***************************************************************************)
(* execute_schema.py                                                       *)
(***************************************************************************)
ES_ReadSchema_Continue ==
    /\ script = "execute_schema" /\ pc = "start"
    /\ schema_file' \in {"present", "missing", "denied"}
    /\ Emit({<<"Reading schema file", "">>})
    /\ pc' = "es_connect"
    /\ UNCHANGED <<exitCode, raised>>
    /\ UNCHANGED <<envVars, idx, log, ret, faults, ssVars, tblVars, dbVars>>

\* lines 31-32 with read_schema_file, lines 10-18
ES_ReadSchema ==
    /\ script = "execute_schema" /\ pc = "start"
    /\ schema_file' \in {"present", "missing", "denied"}
    /\ IF schema_file' = "present"
          THEN /\ Emit({<<"Reading schema file", "">>})
               /\ pc' = "es_connect"
               /\ UNCHANGED <<exitCode, raised>>
       ELSE IF schema_file' = "missing"
          THEN /\ Emit({<<"Reading schema file", "">>,
                        <<"ERROR: Schema file not found", "">>})
               /\ Exit(1)
       ELSE /\ Emit({<<"Reading schema file", "">>})
            /\ Crash("PermissionError")
    /\ UNCHANGED <<envVars, idx, log, ret, faults, ssVars, tblVars, dbVars>>

\* the except clauses of lines 136-141, reached from any statement of the try
\* block: the error is printed and execute_schema returns False; the
\* result is discarded by line 144
ES_Fail(printed) ==
    /\ Emit(printed \cup {<<"Database error", "">>})
    /\ ret' = "False"
    /\ Finish

\* lines 34-40: connect, set_isolation_level, cursor
ES_Connect ==
    /\ script = "execute_schema" /\ pc = "es_connect"
    /\ \E connected \in BOOLEAN :
        IF connected
           THEN /\ conn' = "open"
                /\ Emit({<<"Connecting", "">>, <<"Connection successful", "">>})
                /\ pc' = "es_execute"
                /\ UNCHANGED <<exitCode, ret, raised>>
           ELSE /\ conn' = conn
                /\ ES_Fail({<<"Connecting", "">>})
    /\ UNCHANGED <<envVars, fileVars, idx, log, faults, ssVars, tblVars, sql,
                   property_count, settings_count>>

NextStatement_TablesFirst ==
    IF sql = <<>> THEN "list_tables"
    ELSE LET last == sql[Len(sql)] IN
         CASE last = "list_tables" -> "schema"
           [] last = "schema" -> "count_properties"
           [] last = "count_properties" -> "count_settings"
           [] last = "count_settings" -> "list_indexes"
           [] last = "list_indexes" -> "list_triggers"
           [] OTHER -> "end"

\* the statement the try block passes to cursor.execute next (lines 44-111),
\* "end" after the last one
NextStatement ==
    IF sql = <<>> THEN "schema"
    ELSE LET last == sql[Len(sql)] IN
         CASE last = "schema" -> "list_tables"
           [] last = "list_tables" -> "count_properties"
           [] last = "count_properties" ->
                 IF property_count > 0 THEN "select_properties" ELSE "count_settings"
           [] last = "select_properties" -> "count_settings"
           [] last = "count_settings" ->
                 IF settings_count > 0 THEN "select_settings" ELSE "list_indexes"
           [] last = "select_settings" -> "list_indexes"
           [] last = "list_indexes" -> "list_triggers"
           [] OTHER -> "end"

\* row counts a COUNT(*) query may return
RowCounts == {0, 3}

\* one cursor.execute call of lines 44-111 with the fetch and prints after it
ES_Execute ==
    /\ script = "execute_schema" /\ pc = "es_execute"
    /\ NextStatement # "end"
    /\ sql' = Append(sql, NextStatement)
    /\ \E succeeded \in BOOLEAN : \E n \in RowCounts :
        IF succeeded
           THEN /\ Emit({<<"executed", NextStatement>>})
                /\ property_count' = IF NextStatement = "count_properties"
                                        THEN n ELSE property_count
                /\ settings_count' = IF NextStatement = "count_settings"
                                        THEN n ELSE settings_count
                /\ pc' = IF NextStatement = "list_triggers" THEN "es_close" ELSE pc
                /\ UNCHANGED <<exitCode, ret, raised>>
           ELSE /\ ES_Fail({})
                /\ UNCHANGED <<property_count, settings_count>>
    /\ UNCHANGED <<envVars, fileVars, idx, log, faults, ssVars, tblVars, conn>>

\* lines 118-134
ES_Close ==
    /\ script = "execute_schema" /\ pc = "es_close"
    /\ Emit({<<"DATABASE SETUP COMPLETED SUCCESSFULLY", "">>,
             <<"Database connection closed", "">>})
    /\ conn' = "closed"
    /\ ret' = "True"
    /\ Finish
    /\ UNCHANGED <<envVars, fileVars, idx, log, faults, ssVars, tblVars, sql,
                   property_count, settings_count>>

(***************************************************************************)
(* verify_setup.py                                                         *)
(***************************************************************************)
\* lines 33-51: does the response leave all_tables_exist untouched
CountReadable(r) ==
    ~r.exc /\ r.status = 200 /\ ~SplitRaises(r) /\ ~IntRaises(r.cr)

\* lines 33-51: one iteration of the loop of verify_database_setup
VU_Table ==
    /\ script = "verify_setup" /\ pc = "start"
    /\ \E r \in CountResponses :
        /\ Allowed(r)
        /\ Send(TableGet(tables_to_check[idx], CountQuery, SERVICE_ROLE_KEY), r, {"status"})
        /\ IF CountReadable(r)
              THEN /\ Emit({<<"records", "">>})
                   /\ all_tables_exist' = all_tables_exist
           ELSE IF r.exc \/ r.status = 200
              THEN /\ Emit({<<"Error", "">>})
                   /\ all_tables_exist' = FALSE
           ELSE /\ Emit({<<"Table not accessible (Status)", "">>})
                /\ all_tables_exist' = FALSE
    /\ IF idx < Len(tables_to_check)
          THEN idx' = idx + 1 /\ pc' = pc
          ELSE idx' = idx /\ pc' = "vu_summary"
    /\ UNCHANGED <<envVars, fileVars, exitCode, ret, raised, ssVars, existing_tables,
                   table_results, results, pending, report, dbVars>>

\* lines 55-58 and 98-104
VU_Summary ==
    /\ script = "verify_setup" /\ pc = "vu_summary"
    /\ IF all_tables_exist
          THEN /\ Emit({<<"DATABASE VERIFICATION SUCCESSFUL", "">>})
               /\ pc' = "vu_sample"
               /\ UNCHANGED <<ret, exitCode, raised>>
          ELSE /\ Emit({<<"DATABASE VERIFICATION FAILED", "">>})
               /\ ret' = "False"
               /\ Finish
    /\ UNCHANGED <<envVars, fileVars, idx, log, faults, ssVars, tblVars, dbVars>>

\* what the two sample reads print (lines 68-77 and 87-94); the except
\* clause covers the request, json() and the row subscripts
SampleOutput(r, found, none) ==
    IF r.exc \/ (r.status = 200 /\ r.body \in {"bad", "odd"})
       THEN {<<"Could not fetch", "">>}
    ELSE IF r.status = 200 /\ r.body = "rows" THEN {<<found, "">>}
    ELSE IF r.status = 200 THEN none
    ELSE {}

\* lines 60-77
VU_Sample ==
    /\ script = "verify_setup" /\ pc = "vu_sample"
    /\ \E r \in TableResponses :
        /\ Allowed(r)
        /\ Send(TableGet("properties", "select=name,slug,location&limit=5",
                         SERVICE_ROLE_KEY), r, {})
        /\ Emit(SampleOutput(r, "Sample Properties Found",
                             {<<"No sample properties found", "">>}))
    /\ pc' = "vu_settings"
    /\ UNCHANGED <<envVars, fileVars, idx, exitCode, ret, raised, ssVars, tblVars, dbVars>>

\* lines 79-97 and 103-104
VU_Settings ==
    /\ script = "verify_setup" /\ pc = "vu_settings"
    /\ \E r \in TableResponses :
        /\ Allowed(r)
        /\ Send(TableGet("site_settings", "select=site_name,tagline&limit=1",
                         SERVICE_ROLE_KEY), r, {})
        /\ Emit(SampleOutput(r, "Site Configuration", {})
                \cup {<<"Your Cozy Condo database is ready to use", "">>})
    /\ ret' = "True"
    /\ Finish
    /\ UNCHANGED <<envVars, fileVars, idx, ssVars, tblVars, dbVars>>

(***************************************************************************)
(* verify_database.py                                                      *)
(***************************************************************************)
\* make_request, lines 31-41: raise_for_status turns a 4xx/5xx status into a
\* RequestException, which the except clause turns into a failure result that
\* carries the status; a connection error carries status None (0 here)
MakeRequest(r) ==
    IF ~r.exc /\ r.status \in {200, 201}
       THEN [success |-> TRUE, status |-> r.status]
       ELSE [success |-> FALSE, status |-> r.status]

\* on a 200 response whose body is not JSON, response.json() of line 39
\* raises: a RequestException (caught, failure with status None) in current
\* releases of the HTTP library, a plain ValueError (uncaught) in older ones
BadJson(r) == ~r.exc /\ r.status = 200 /\ r.body = "bad"

JsonFailure == [success |-> FALSE, status |-> 0]

Headers_AlwaysService(use_service_role) == SERVICE_ROLE_KEY

\* line 34: headers_service if use_service_role else headers_anon; the two
\* header sets of lines 19-28 carry one key each, as apikey and as bearer
Headers(use_service_role) ==
    IF use_service_role THEN SERVICE_ROLE_KEY ELSE ANON_KEY

\* verify_table_exists, lines 43-54, called by the loop of lines 200-202
VD_Exists ==
    /\ script = "verify_database" /\ pc = "start"
    /\ \E r \in TableResponses :
        /\ Allowed(r)
        /\ Send(TableGet(tables_to_check[idx], "limit=1", Headers(TRUE)), r, {"status"})
        /\ \/ /\ BadJson(r)
              /\ Crash("ValueError")
              /\ UNCHANGED <<idx, out, table_results>>
           \/ LET result == IF BadJson(r) THEN JsonFailure ELSE MakeRequest(r) IN
              /\ IF result.success
                    THEN /\ Emit({<<"Table exists", "">>})
                         /\ table_results' = table_results \cup {tables_to_check[idx]}
                    ELSE /\ Emit({<<"Table does not exist or is not accessible", "">>})
                         /\ table_results' = table_results
              /\ IF idx < Len(tables_to_check)
                    THEN idx' = idx + 1 /\ pc' = pc
                    ELSE idx' = 1 /\ pc' = "vd_structure"
              /\ UNCHANGED <<exitCode, raised>>
    /\ UNCHANGED <<envVars, fileVars, ret, ssVars, all_tables_exist, existing_tables,
                   results, pending, report, dbVars>>

StructureChecked_Always(t) == TRUE

\* the test of line 210
StructureChecked(t) == t \in table_results

\* end of one iteration of the loop of lines 209-212
VD_NextStructure ==
    IF idx < Len(tables_to_check)
        THEN idx' = idx + 1 /\ pc' = pc
        ELSE idx' = 1 /\ pc' = "vd_sample"

\* verify_table_structure, lines 56-72, called when line 210 holds
VD_Structure ==
    /\ script = "verify_database" /\ pc = "vd_structure"
    /\ StructureChecked(tables_to_check[idx])
    /\ \E r \in TableResponses :
        /\ Allowed(r)
        /\ Send(TableGet(tables_to_check[idx], "limit=1", Headers(TRUE)), r, {})
        /\ \/ /\ BadJson(r)
              /\ Crash("ValueError")
              /\ UNCHANGED <<idx, out>>
           \/ LET result == IF BadJson(r) THEN JsonFailure ELSE MakeRequest(r) IN
              /\ Emit(IF ~result.success
                         THEN {<<"Could not verify structure", "">>}
                      ELSE IF r.body = "empty" THEN {<<"Table exists but is empty", "">>}
                      ELSE {<<"Table has columns", "">>})
              /\ VD_NextStructure
              /\ UNCHANGED <<exitCode, raised>>
    /\ UNCHANGED <<envVars, fileVars, ret, ssVars, tblVars, dbVars>>

\* line 210 does not hold: no structure check for this table
VD_SkipStructure ==
    /\ script = "verify_database" /\ pc = "vd_structure"
    /\ ~StructureChecked(tables_to_check[idx])
    /\ VD_NextStructure
    /\ UNCHANGED <<envVars, fileVars, log, out, exitCode, ret, faults, raised, ssVars,
                   tblVars, dbVars>>

\* order of the five reads of verify_sample_data
sample_tables == <<"properties", "property_photos", "calendar_events",
                   "site_settings", "blog_posts">>

\* verify_sample_data, lines 74-129: one of its five reads
VD_Sample ==
    /\ script = "verify_database" /\ pc = "vd_sample"
    /\ \E r \in TableResponses :
        /\ Allowed(r)
        /\ Send(TableGet(sample_tables[idx], "", Headers(TRUE)), r, {"status"})
        /\ \/ /\ BadJson(r)
              /\ Crash("ValueError")
              /\ UNCHANGED <<idx, out>>
           \/ LET result == IF BadJson(r) THEN JsonFailure ELSE MakeRequest(r) IN
              /\ Emit(IF result.success THEN {<<"Found records", "">>}
                      ELSE {<<"Could not retrieve", "">>})
              /\ IF idx < Len(sample_tables)
                    THEN idx' = idx + 1 /\ pc' = pc
                    ELSE idx' = 1 /\ pc' = "vd_rls"
              /\ UNCHANGED <<exitCode, raised>>
    /\ UNCHANGED <<envVars, fileVars, ret, ssVars, tblVars, dbVars>>

\* verify_rls_policies, lines 131-151: one iteration of its loop
VD_Rls ==
    /\ script = "verify_database" /\ pc = "vd_rls"
    /\ \E r \in TableResponses :
        /\ Allowed(r)
        /\ Send(TableGet(tables_to_check[idx], "limit=1", Headers(FALSE)), r,
                IF r.status = 401 THEN {} ELSE {"status"})
        /\ \/ /\ BadJson(r)
              /\ Crash("ValueError")
              /\ UNCHANGED <<idx, out>>
           \/ LET result == IF BadJson(r) THEN JsonFailure ELSE MakeRequest(r) IN
              /\ Emit(IF result.success THEN {<<"Anon access is allowed", "">>}
                      ELSE IF result.status = 401
                         THEN {<<"Anon access is restricted", "">>}
                      ELSE {<<"Unexpected response", "">>})
              /\ IF idx < Len(tables_to_check)
                    THEN idx' = idx + 1 /\ pc' = pc
                    ELSE idx' = 1 /\ pc' = "vd_buckets"
              /\ UNCHANGED <<exitCode, raised>>
    /\ UNCHANGED <<envVars, fileVars, ret, ssVars, tblVars, dbVars>>

\* expected_buckets of line 170
expected_buckets == {"property-photos", "blog-images"}

\* verify_storage_buckets, lines 153-178
VD_Buckets ==
    /\ script = "verify_database" /\ pc = "vd_buckets"
    /\ \E r \in ListResponses :
        /\ Allowed(r)
        /\ Send(BucketList(SERVICE_ROLE_KEY), r, {"status"})
        /\ \/ /\ ~r.exc /\ r.status = 200 /\ r.body = "bad"
              /\ Crash("ValueError")
              /\ out' = out
           \/ /\ Emit(IF r.exc \/ r.status # 200 \/ r.body = "bad"
                         THEN {<<"Could not retrieve storage buckets", "">>}
                         ELSE {<<"Found storage buckets", "">>}
                              \cup {<<"Required bucket exists", b>> :
                                        b \in expected_buckets \cap r.names}
                              \cup {<<"Required bucket is missing", b>> :
                                        b \in expected_buckets \ r.names})
              /\ pc' = "vd_summary"
              /\ UNCHANGED <<exitCode, raised>>
    /\ UNCHANGED <<envVars, fileVars, idx, ret, ssVars, tblVars, dbVars>>

AllExist_Some == table_results # {}

\* line 228: all(table_results.values())
AllExist == \A i \in 1..Len(tables_to_check) : tables_to_check[i] \in table_results

\* lines 223-240
VD_Summary ==
    /\ script = "verify_database" /\ pc = "vd_summary"
    /\ Emit(IF AllExist
               THEN {<<"All required tables exist: YES", "">>,
                     <<"Database verification completed successfully", "">>}
               ELSE {<<"All required tables exist: NO", "">>,
                     <<"Some issues were found during verification", "">>})
    /\ Finish
    /\ UNCHANGED <<envVars, fileVars, idx, log, ret, faults, ssVars, tblVars, dbVars>>

(***************************************************************************)
(* schema_verification.py                                                  *)
(***************************************************************************)
\* expected_schemas of lines 35-59
expected_schemas ==
    [t \in {"properties", "property_photos", "calendar_events", "blog_posts",
            "site_settings"} |->
        CASE t = "properties" ->
                {"id", "name", "slug", "description", "short_description",
                 "location", "address", "map_url", "airbnb_url",
                 "airbnb_ical_url", "amenities", "featured", "active",
                 "display_order", "created_at", "updated_at"}
          [] t = "property_photos" ->
                {"id", "property_id", "url", "alt_text", "display_order",
                 "is_primary", "created_at", "updated_at"}
          [] t = "calendar_events" ->
                {"id", "property_id", "event_date", "event_type", "price",
                 "notes", "created_at", "updated_at"}
          [] t = "blog_posts" ->
                {"id", "title", "slug", "excerpt", "content",
                 "featured_image_url", "author", "status", "published_at",
                 "created_at", "updated_at"}
          [] OTHER ->
                {"id", "site_name", "tagline", "description", "phone", "email",
                 "facebook_url", "messenger_url", "address", "logo_url",
                 "hero_title", "hero_subtitle", "about_title", "about_content",
                 "created_at", "updated_at"}]

\* key sets the first row of a table may have: the expected columns, with
\* or without "id", with or without an unexpected column, or no key at all
RowKeys(t) ==
    {expected_schemas[t], expected_schemas[t] \ {"id"},
     expected_schemas[t] \cup {"legacy_id"},
     (expected_schemas[t] \ {"id"}) \cup {"legacy_id"}, {}}

\* responses to the GET of check_table_schema; "none" stands for no row
RowResponses(t) ==
    [exc : {TRUE}, status : {0}, body : {"none"}, keys : {{}}]
    \cup [exc : {FALSE}, status : {401, 404}, body : {"json"}, keys : {{}}]
    \cup [exc : {FALSE}, status : {200}, body : {"empty", "bad"}, keys : {{}}]
    \cup [exc : {FALSE}, status : {200}, body : {"rows"}, keys : RowKeys(t)]

\* check_table_schema, lines 22-29: data[0] of a non-empty list, else None
CheckTableSchema(r) ==
    IF r.status = 200 /\ r.body = "rows"
       THEN [row |-> TRUE, keys |-> r.keys]
       ELSE [row |-> FALSE, keys |-> {}]

\* lines 65-84 of main: what is reported for one table; sample_row and
\* actual record the value check_table_schema returned (None or a row) and
\* the keys of that row; "if sample_row:" is false for None and for a row
\* without keys
SchemaReport(t, sample_row) ==
    IF sample_row.row /\ sample_row.keys # {}
       THEN LET missing_columns == expected_schemas[t] \ sample_row.keys
                extra_columns == sample_row.keys \ expected_schemas[t]
            IN  [table |-> t, verdict |->
                    IF missing_columns = {} /\ extra_columns = {}
                       THEN "All expected columns present and no extras"
                       ELSE "mismatch",
                 missing |-> missing_columns, extra |-> extra_columns,
                 sample_row |-> "row", actual |-> sample_row.keys]
       ELSE [table |-> t,
             verdict |-> "Table exists but is empty - cannot verify full schema",
             missing |-> {}, extra |-> {},
             sample_row |-> IF sample_row.row THEN "row" ELSE "None",
             actual |-> sample_row.keys]

\* one iteration of the loop of lines 61-84; check_table_schema has no
\* try/except, so an exception of the request or of json() ends the run
SV_Table ==
    /\ script = "schema_verification" /\ pc = "start"
    /\ \E r \in RowResponses(tables_to_check[idx]) :
        /\ Allowed(r)
        /\ Send(TableGet(tables_to_check[idx], "limit=1", SERVICE_ROLE_KEY), r, {})
        /\ IF r.exc
              THEN /\ Crash("RequestException")
                   /\ UNCHANGED <<idx, report>>
           ELSE IF r.status = 200 /\ r.body = "bad"
              THEN /\ Crash("ValueError")
                   /\ UNCHANGED <<idx, report>>
           ELSE /\ report' = Append(report, SchemaReport(tables_to_check[idx],
                                                         CheckTableSchema(r)))
                /\ IF idx < Len(tables_to_check)
                      THEN /\ idx' = idx + 1
                           /\ UNCHANGED <<pc, exitCode, raised>>
                      ELSE /\ idx' = idx
                           /\ Finish
    /\ UNCHANGED <<envVars, fileVars, out, ret, ssVars, all_tables_exist,
                   existing_tables, table_results, results, pending, dbVars>>

Next ==
    \/ SS_List
    \/ SS_Existing
    \/ SS_Create
    \/ SS_Put
    \/ SS_Summary
    \/ VS_Table
    \/ VS_Summary
    \/ VS_Sample
    \/ VS_Settings
    \/ VS_Exit
    \/ DC_Section
    \/ FV_Anon
    \/ FV_Storage
    \/ FV_Files
    \/ FV_Properties
    \/ FV_Settings
    \/ FV_Final
    \/ EA_Table
    \/ EA_Check
    \/ EA_Main
    \/ EA_ReadSchema
    \/ EA_Manual
    \/ ES_ReadSchema
    \/ ES_Connect
    \/ ES_Execute
    \/ ES_Close
    \/ VU_Table
    \/ VU_Summary
    \/ VU_Sample
    \/ VU_Settings
    \/ VD_Exists
    \/ VD_Structure
    \/ VD_SkipStructure
    \/ VD_Sample
    \/ VD_Rls
    \/ VD_Buckets
    \/ VD_Summary
    \/ SV_Table

Spec == Init /\ [][Next]_vars

(***************************************************************************)
(* Properties.                                                             *)
(***************************************************************************)
LogIdx == 1..Len(log)

IsCreate(e, b) ==
    e.rq.m = "POST" /\ e.rq.api = "/storage/v1/bucket" /\ e.rq.body.id = b

IsPut(e, b) ==
    e.rq.m = "PUT" /\ e.rq.api = "/storage/v1/bucket" /\ e.rq.res = b

\* the iteration of the bucket loop for buckets[k] has decided between the
\* "already exists" branch and the create POST
Decided(k) ==
    \/ pc \in {"ss_summary", "done"}
    \/ pc = "ss_bucket" /\ idx > k
    \/ pc = "ss_put" /\ idx >= k

\* C1: in setup_storage_buckets a create POST is issued for a required
\* bucket if and only if its id is absent from the names the preceding list
\* request returned; a bucket found in the listing is never sent a create
\* POST or a PUT.
C1_CreateIffAbsent ==
    script = "setup_storage" =>
        \A k \in 1..Len(buckets) :
            LET b == buckets[k].id
                created == \E i \in LogIdx : IsCreate(log[i], b)
            IN  /\ created =>
                      /\ b \notin existing_bucket_names
                      /\ log[1].rq = BucketList(SERVICE_ROLE_KEY)
                      /\ ~IsCreate(log[1], b)
                /\ (Decided(k) /\ b \notin existing_bucket_names) => created
                /\ b \in existing_bucket_names =>
                      \A i \in LogIdx : ~IsCreate(log[i], b) /\ ~IsPut(log[i], b)

C1_Witness ==
    /\ script = "setup_storage" /\ pc = "done"
    /\ "property-photos" \in existing_bucket_names
    /\ "blog-images" \notin existing_bucket_names
    /\ \E i \in LogIdx : IsCreate(log[i], "blog-images")
    /\ \A i \in LogIdx : ~IsCreate(log[i], "property-photos")

\* a request that sets the public-read flag of bucket b to true
SetsPublic(e, b) == (IsCreate(e, b) \/ IsPut(e, b)) /\ e.rq.body.public

RequiredIds == {buckets[k].id : k \in 1..Len(buckets)}

\* C2 as stated: for every required bucket counted as ready, buckets already
\* in the listing included, the run has issued a create POST or a PUT with
\* public=true for it.
C2_ReadyImpliesPublicRequest ==
    script = "setup_storage" =>
        \A b \in counted : \E i \in LogIdx : SetsPublic(log[i], b)

\* C2 amended: every required bucket counted as ready that was absent from
\* the listing has had a successful create POST with public=true; a bucket
\* found in the listing is counted as ready with no request sent for it; and
\* the function returns True only when every required bucket is counted.
C2_ReadyCreatedPublic ==
    script = "setup_storage" =>
        /\ \A b \in counted :
              IF b \in existing_bucket_names
                 THEN \A i \in LogIdx : ~SetsPublic(log[i], b)
                 ELSE \E i \in LogIdx :
                          /\ IsCreate(log[i], b)
                          /\ log[i].rq.body.public
                          /\ log[i].res = "ok"
        /\ counted \subseteq RequiredIds
        /\ success_count = Cardinality(counted)
        /\ (ret = "True" \/ <<"All storage buckets are ready", "">> \in out)
              => counted = RequiredIds

C2_Witness ==
    /\ script = "setup_storage" /\ pc = "done" /\ ret = "True"
    /\ "blog-images" \in existing_bucket_names
    /\ "property-photos" \notin existing_bucket_names
    /\ counted = RequiredIds

\* C3 as stated: no exception raised by a request aborts a run; the error is
\* printed and the remaining checks are performed.
C3_RequestExceptionNeverAborts == raised # "RequestException"

\* C4: verify_schema.py exits with code 0 if and only if each of the five
\* table requests returned 200 without raising, and with code 1 otherwise;
\* one failing table makes the verdict False whatever follows.
C4_ExitCodeIffAllTables ==
    script = "verify_schema" =>
        LET n == IF Len(log) < Len(tables_to_check) THEN Len(log)
                 ELSE Len(tables_to_check)
            failed == \E i \in 1..n : log[i].res # "ok"
        IN  /\ pc \in {"done", "crashed"} =>
                  /\ exitCode \in {0, 1}
                  /\ exitCode = 0 <=> (n = Len(tables_to_check) /\ ~failed)
            /\ failed => (~all_tables_exist \/ pc = "crashed")
            /\ (failed /\ pc \in {"vs_exit", "done"}) => ret = "False"

C4_Witness ==
    /\ script = "verify_schema" /\ pc = "done" /\ exitCode = 1
    /\ Len(log) = 5
    /\ log[2].res = "fail"
    /\ \A i \in {1, 3, 4, 5} : log[i].res = "ok"

ReadingSchema == <<"Reading schema file", "">>

\* C5 as stated: execute_schema_api.py exits 0 exactly when
\* check_if_tables_exist returns True and otherwise prints the manual
\* instructions and exits 1; neither the instructions nor the schema read
\* occur on a run that exits 0; a run that does not crash ends with 0 or 1.
C5_ExitOrInstructions ==
    (script = "execute_schema_api" /\ pc = "done") =>
        /\ exitCode \in {0, 1}
        /\ exitCode = 0 <=> ret = "True"
        /\ exitCode = 0 =>
              /\ out \cap ManualInstructions = {}
              /\ ReadingSchema \notin out /\ schema_file = "unread"
        /\ exitCode = 1 => ManualInstructions \subseteq out

\* C5 amended: the exit code is 0 exactly when check_if_tables_exist returns
\* True and 1 otherwise; on the exit-1 runs the manual instructions are
\* printed unless the schema file is missing, in which case only the "schema
\* file not found" error is printed; neither the instructions nor the schema
\* read occur on a run that exits 0.
C5_ExitFollowsCheck ==
    (script = "execute_schema_api" /\ pc = "done") =>
        /\ exitCode \in {0, 1}
        /\ exitCode = 0 <=> ret = "True"
        /\ exitCode = 1 <=> ret = "False"
        /\ exitCode = 0 =>
              /\ out \cap ManualInstructions = {}
              /\ ReadingSchema \notin out /\ schema_file = "unread"
        /\ exitCode = 1 =>
              IF schema_file = "missing"
                 THEN /\ out \cap ManualInstructions = {}
                      /\ <<"ERROR: Schema file not found", "">> \in out
                 ELSE /\ schema_file = "present"
                      /\ ManualInstructions \subseteq out

C5_Witness ==
    /\ script = "execute_schema_api" /\ pc = "done"
    /\ exitCode = 1 /\ ret = "False" /\ schema_file = "missing"
    /\ Len(log) = 5

\* C6: no request is retried: once a request has failed (non-2xx status or
\* exception) the same request is not sent again in the run; and
\* setup_storage_buckets sends at most one list GET and, per required
\* bucket, at most one create POST and at most one PUT.
C6_NoRetry ==
    /\ \A i \in LogIdx : \A j \in LogIdx :
          (i < j /\ log[i].res = "fail") => log[j].rq # log[i].rq
    /\ script = "setup_storage" =>
          /\ Cardinality({i \in LogIdx : log[i].rq = BucketList(SERVICE_ROLE_KEY)}) <= 1
          /\ \A b \in RequiredIds :
                /\ Cardinality({i \in LogIdx : IsCreate(log[i], b)}) <= 1
                /\ Cardinality({i \in LogIdx : IsPut(log[i], b)}) <= 1

C6_Witness ==
    /\ script = "verify_database" /\ pc = "done"
    /\ log[1].res = "fail"
    /\ Len(log) > 15

\* the closing success text of the four verifier scripts
SuccessSummary ==
    {<<"Database verification completed successfully", "">>,
     <<"Schema verification completed successfully", "">>,
     <<"Your Cozy Condo database is ready to use", "">>,
     <<"All 5 required tables exist", "">>,
     <<"Your Supabase database is ready for use", "">>}

\* the requests of the table-existence loop, which opens each of the four
\* verifier scripts
ExistenceChecks ==
    {i \in LogIdx : i <= Len(tables_to_check) /\ log[i].rq.api = "/rest/v1"}

Verifiers ==
    {"verify_database", "verify_schema", "verify_setup", "final_verification"}

\* C7 as stated: a verifier script (verify_database, verify_schema,
\* verify_setup, final_verification) prints its closing success summary only
\* in a run in which no table-existence request returned non-200 or raised.
C7_SuccessOnlyIfTablesOk ==
    (script \in Verifiers /\ out \cap SuccessSummary # {})
        => \A i \in ExistenceChecks : log[i].res # "fail"

\* C8: detailed_data_check.main sends one GET per table, in the order
\* properties, site_settings, property_photos, calendar_events, blog_posts,
\* each with the service-role key as apikey and as bearer token; a non-200
\* response makes get_data return None and the GETs of the later tables are
\* sent all the same.
C8_ReaderSequence ==
    script = "detailed_data_check" =>
        /\ Len(log) <= 5
        /\ \A i \in LogIdx :
              log[i].rq = [m |-> "GET", api |-> "/rest/v1",
                           res |-> <<"properties", "site_settings",
                                     "property_photos", "calendar_events",
                                     "blog_posts">>[i],
                           q |-> "", apikey |-> SERVICE_ROLE_KEY,
                           bearer |-> SERVICE_ROLE_KEY, body |-> NoBody]
        /\ pc = "done" => Len(log) = 5
        /\ \A i \in LogIdx :
              (log[i].res = "fail" /\ ~(i = Len(log) /\ raised = "RequestException"))
                 => /\ Len(results) >= i
                    /\ results[i] = "None"
                    /\ i = Len(log) =>
                          IF i < 5 THEN pc = "start" /\ idx = i + 1
                                   ELSE pc = "done"

C8_Witness ==
    /\ script = "detailed_data_check" /\ pc = "done"
    /\ Len(log) = 5
    /\ log[2].res = "fail" /\ results[2] = "None"
    /\ log[3].res = "ok"

DatabaseError == <<"Database error", "">>

\* C9: execute_schema executes the schema text exactly once in a run where
\* connecting succeeds and never where it fails; the schema execution
\* precedes every verification query; an error in any step stops the later
\* steps and yields False.
C9_SchemaOnceAndFirst ==
    script = "execute_schema" =>
        /\ conn = "none" => sql = <<>>
        /\ sql # <<>> => sql[1] = "schema"
        /\ \A i \in 2..Len(sql) : sql[i] # "schema"
        /\ (conn # "none" /\ pc = "done") => sql # <<>>
        /\ DatabaseError \in out =>
              /\ pc = "done" /\ ret = "False"
              /\ conn = "open" =>
                    Cardinality({t \in out : t[1] = "executed"}) = Len(sql) - 1
        /\ ret = "True" =>
              /\ DatabaseError \notin out
              /\ Cardinality({t \in out : t[1] = "executed"}) = Len(sql)
              /\ sql[Len(sql)] = "list_triggers"

C9_Witness ==
    /\ script = "execute_schema" /\ pc = "done" /\ ret = "False"
    /\ conn = "open"
    /\ sql = <<"schema", "list_tables", "count_properties">>

\* C10 as stated: when connecting raises, execute_schema prints the manual
\* setup instructions instead of executing the schema.
C10_ManualOnConnectFailure ==
    (/\ script = "execute_schema" /\ pc = "done"
     /\ schema_file = "present" /\ conn = "none")
        => /\ sql = <<>>
           /\ out \cap ManualInstructions # {}

\* C11 as stated: every non-2xx response a script receives is reported with
\* both its status code and its response body.
C11_RejectionShowsStatusAndBody ==
    \A i \in LogIdx :
        log[i].rejected => {"status", "body"} \subseteq log[i].shown

\* the requests of verify_rls_policies in a run of verify_database.py: the
\* loop starts after the five existence checks, one structure check per
\* existing table and the five sample reads
RlsProbes ==
    IF pc \in {"vd_rls", "vd_buckets", "vd_summary", "done"}
       THEN {i \in LogIdx : /\ i > 10 + Cardinality(table_results)
                            /\ i <= 15 + Cardinality(table_results)}
       ELSE {}

UsesAnon(e) == e.rq.apikey = ANON_KEY

\* C12: the access-policy probes use the anon key and every other request
\* the service-role key: in verify_database exactly the requests of
\* verify_rls_policies carry the anon key, in final_verification exactly
\* those of test_anon_access; the two keys differ, and no request carries
\* one key as apikey and the other as bearer token.
C12_AnonOnlyInProbes ==
    /\ ANON_KEY # SERVICE_ROLE_KEY
    /\ \A i \in LogIdx :
          /\ log[i].rq.apikey = log[i].rq.bearer
          /\ log[i].rq.apikey \in {ANON_KEY, SERVICE_ROLE_KEY}
    /\ script = "verify_database" =>
          /\ pc # "crashed" => \A i \in LogIdx : UsesAnon(log[i]) <=> i \in RlsProbes
          /\ \A i \in LogIdx : UsesAnon(log[i]) =>
                /\ i > 10
                /\ log[i].rq.q = "limit=1" /\ log[i].rq.api = "/rest/v1"
                /\ \A j \in LogIdx : j > i => UsesAnon(log[j])
                                               \/ log[j].rq = BucketList(SERVICE_ROLE_KEY)
    /\ script = "final_verification" =>
          \A i \in LogIdx : UsesAnon(log[i]) <=> i <= Len(tables_to_check)
    /\ script \notin {"verify_database", "final_verification"} =>
          \A i \in LogIdx : ~UsesAnon(log[i])

C12_Witness ==
    /\ script = "verify_database" /\ pc = "done"
    /\ Cardinality(table_results) = 4
    /\ Len(log) = 20
    /\ UsesAnon(log[15]) /\ UsesAnon(log[19]) /\ ~UsesAnon(log[14]) /\ ~UsesAnon(log[20])

AllPresent == "All expected columns present and no extras"

TableEmpty == "Table exists but is empty - cannot verify full schema"

\* C13 as stated: for a table whose request returned a first row,
\* schema_verification prints 'All expected columns present and no extras'
\* if and only if the keys of that row equal the expected column set;
\* otherwise the reported missing columns are expected minus actual, the
\* reported extra columns are actual minus expected, and at least one of
\* the two is reported.
C13_ColumnComparison ==
    script = "schema_verification" =>
        \A i \in 1..Len(report) :
            LET e == report[i]
                expected == expected_schemas[e.table]
            IN  e.sample_row = "row" =>
                    /\ e.verdict = AllPresent <=> e.actual = expected
                    /\ e.actual # expected =>
                          /\ e.missing = expected \ e.actual
                          /\ e.extra = e.actual \ expected
                          /\ e.missing # {} \/ e.extra # {}
                          /\ e.verdict # TableEmpty

\* the create POST for bucket b was answered with 200 or 201
CreateAccepted(b) ==
    \E i \in LogIdx : IsCreate(log[i], b) /\ log[i].res # "fail"

\* C14: setup_storage_buckets returns True if and only if every required
\* bucket was in the listing or had its create POST answered with 200 or
\* 201; success_count never exceeds the number of required buckets, each
\* bucket adds at most 1 to it, and a bucket whose create succeeded stays
\* counted whatever the outcome of the public-flag PUT.
C14_ReturnIffAllReady ==
    script = "setup_storage" =>
        /\ success_count = Cardinality(counted)
        /\ counted \subseteq RequiredIds
        /\ success_count <= Len(buckets)
        /\ \A b \in RequiredIds :
              /\ CreateAccepted(b) => b \in counted
              /\ b \in counted => (b \in existing_bucket_names \/ CreateAccepted(b))
        /\ pc = "done" =>
              /\ ret \in {"True", "False"}
              /\ ret = "True" <=>
                    \A b \in RequiredIds :
                        b \in existing_bucket_names \/ CreateAccepted(b)

C14_Witness ==
    /\ script = "setup_storage" /\ pc = "done" /\ ret = "True"
    /\ "blog-images" \in existing_bucket_names
    /\ \E i \in LogIdx :
          /\ IsCreate(log[i], "property-photos") /\ log[i].res = "ok"
          /\ i < Len(log)
          /\ IsPut(log[i + 1], "property-photos") /\ log[i + 1].res = "fail"
    /\ success_count = 2

\* the position of bucket b in the required list
BucketIndex(b) == CHOOSE k \in 1..Len(buckets) : buckets[k].id = b

\* the required bucket a POST or PUT of the log is about
BucketOf(e) == IF e.rq.m = "POST" THEN e.rq.body.id ELSE e.rq.res

\* C15: the requests of setup_storage_buckets are strictly ordered: the
\* list GET is the first request and completes before any create POST; the
\* PUT for a bucket directly follows that bucket's create POST and is sent
\* only when that POST was answered with 200 or 201; and every request for
\* the first bucket precedes every request for the second.
C15_StrictOrder ==
    script = "setup_storage" =>
        /\ \A i \in LogIdx : (i = 1) <=> (log[i].rq = BucketList(SERVICE_ROLE_KEY))
        /\ pc = "start" <=> log = <<>>
        /\ \A i \in LogIdx : i > 1 =>
              /\ log[i].rq.m \in {"POST", "PUT"}
              /\ BucketOf(log[i]) \in RequiredIds
              /\ log[i].rq.m = "PUT" =>
                    /\ i > 2
                    /\ IsCreate(log[i - 1], BucketOf(log[i]))
                    /\ log[i - 1].res # "fail"
        /\ \A i \in LogIdx : \A j \in LogIdx :
              (1 < i /\ i < j) =>
                  BucketIndex(BucketOf(log[i])) <= BucketIndex(BucketOf(log[j]))

C15_Witness ==
    /\ script = "setup_storage" /\ pc = "done"
    /\ Len(log) = 5
    /\ IsCreate(log[2], "property-photos") /\ IsPut(log[3], "property-photos")
    /\ IsCreate(log[4], "blog-images") /\ IsPut(log[5], "blog-images")

\* C16: if the bucket list request fails (non-200 status or an exception,
\* that of decoding the body included), the existing-bucket list is empty, a
\* create POST is sent for every required bucket, and the result depends
\* only on the create responses.
C16_FailedListingCreatesAll ==
    (script = "setup_storage" /\ log # <<>> /\ log[1].res # "ok") =>
        /\ existing_bucket_names = {}
        /\ \A k \in 1..Len(buckets) :
              Decided(k) => \E i \in LogIdx : IsCreate(log[i], buckets[k].id)
        /\ counted = {b \in RequiredIds : CreateAccepted(b)}
        /\ pc = "done" =>
              (ret = "True" <=> \A b \in RequiredIds : CreateAccepted(b))

C16_Witness ==
    /\ script = "setup_storage" /\ pc = "done" /\ ret = "False"
    /\ log[1].res = "fail"
    /\ \E i \in LogIdx : IsCreate(log[i], "property-photos") /\ log[i].res = "fail"
    /\ \E i \in LogIdx : IsCreate(log[i], "blog-images") /\ log[i].res = "ok"
    /\ counted = {"blog-images"}

\* each of the five count requests of the table loop was answered with 200
AllCountsAnswered ==
    /\ Len(log) >= Len(tables_to_check)
    /\ \A i \in 1..Len(tables_to_check) : log[i].res # "fail"

\* C17 as stated: in check_if_tables_exist (execute_schema_api) and
\* verify_database_setup (verify_setup) a table whose count request returns
\* 200 always counts as existing, so the function returns True whenever all
\* five tables return 200, a missing Content-Range header or a count that
\* is not a decimal number included, and the function never raises.
C17_Status200CountsAsExisting ==
    /\ script = "execute_schema_api" =>
          /\ raised = "none"
          /\ (AllCountsAnswered /\ pc \notin {"start", "ea_result"}) => ret = "True"
    /\ script = "verify_setup" =>
          /\ raised = "none"
          /\ (AllCountsAnswered /\ pc # "start") => all_tables_exist
          /\ (AllCountsAnswered /\ pc = "done") => ret = "True"

VerdictOk == <<"Database verification completed successfully", "">>

VerdictIssues == <<"Some issues were found during verification", "">>

\* the existence check of table t succeeded
ExistenceOk(t) ==
    \E j \in LogIdx :
        /\ j <= Len(tables_to_check)
        /\ log[j].rq = TableGet(t, "limit=1", SERVICE_ROLE_KEY)
        /\ log[j].res = "ok"

\* C18: in verify_database.run_full_verification the structure request of a
\* table is sent only if that table's existence check succeeded; a run that
\* reaches the summary has gone through the sample-data, RLS and bucket
\* sections whatever the existence results were; and its verdict is
\* 'completed successfully' if and only if all five existence checks
\* succeeded, whatever failed in those three sections.
C18_VerdictFollowsExistence ==
    script = "verify_database" =>
        /\ \A i \in LogIdx :
              (/\ i > Len(tables_to_check)
               /\ log[i].rq.q = "limit=1"
               /\ log[i].rq.apikey = SERVICE_ROLE_KEY)
                  => /\ ExistenceOk(log[i].rq.res)
                     /\ log[i].rq.res \in table_results
        /\ \A t \in table_results : ExistenceOk(t)
        /\ pc \in {"vd_summary", "done"} =>
              /\ Len(log) = 16 + Cardinality(table_results)
              /\ \A k \in 1..5 :
                    /\ log[5 + Cardinality(table_results) + k].rq
                          = TableGet(sample_tables[k], "", SERVICE_ROLE_KEY)
                    /\ log[10 + Cardinality(table_results) + k].rq
                          = TableGet(tables_to_check[k], "limit=1", ANON_KEY)
              /\ log[Len(log)].rq = BucketList(SERVICE_ROLE_KEY)
        /\ pc = "done" =>
              /\ VerdictOk \in out <=> \A k \in 1..5 : log[k].res = "ok"
              /\ VerdictIssues \in out <=> VerdictOk \notin out
        /\ pc # "done" => (VerdictOk \notin out /\ VerdictIssues \notin out)

C18_Witness ==
    /\ script = "verify_database" /\ pc = "done"
    /\ VerdictOk \in out
    /\ Len(log) = 21
    /\ log[11].res = "fail"
    /\ <<"Required bucket is missing", "blog-images">> \in out

\* C19 as stated: schema_verification prints 'Table exists but is empty -
\* cannot verify full schema' for a table only when that table's request
\* returned 200 with zero rows; a table whose request returned a non-200
\* status is not reported as existing.
C19_EmptyOnlyWhenNoRows ==
    script = "schema_verification" =>
        \A i \in 1..Len(report) :
            /\ report[i].verdict = TableEmpty =>
                  /\ ~log[i].rejected
                  /\ report[i].sample_row = "None"
            /\ log[i].rejected => report[i].verdict \notin {TableEmpty, AllPresent}

\* C20 as stated: a database connection that execute_schema opened is
\* closed before the function returns, on the paths where executing the
\* schema or a later query raises as well.
C20_ConnectionClosedOnReturn ==
    (script = "execute_schema" /\ pc = "done" /\ conn # "none") => conn = "closed"

\* the scripts whose __main__ block passes the result to sys.exit
ExitMapped == {"verify_schema", "execute_schema_api"}

\* the scripts whose __main__ block calls the top-level function and drops
\* the boolean it returns
ResultDiscarded == {"verify_setup", "setup_storage", "execute_schema"}

\* C21: only verify_schema.py and execute_schema_api.py map their outcome
\* to the exit code (0 for True, 1 for False); verify_setup.py,
\* setup_storage.py and execute_schema.py discard the boolean, so a run
\* whose function returned False still ends with exit code 0, and so does
\* every completed run of the remaining scripts.
C21_ExitCodeOnlyWhereMapped ==
    pc = "done" =>
        /\ (script \in ExitMapped /\ ret = "True") => exitCode = 0
        /\ (script \in ExitMapped /\ ret = "False") => exitCode = 1
        /\ (script \in ResultDiscarded /\ ret \in {"True", "False"}) => exitCode = 0
        /\ script \notin ExitMapped =>
              (exitCode = 0 \/ (script = "execute_schema" /\ schema_file = "missing"
                                   /\ ret = "none"))

C21_Witness ==
    /\ pc = "done" /\ exitCode = 0 /\ ret = "False"
    /\ script = "verify_setup"
    /\ ~all_tables_exist

SchemaNotFound == <<"ERROR: Schema file not found", "">>

\* C22: when the schema file is missing read_schema_file ends the process
\* with exit code 1; in execute_schema before any connection is attempted
\* and with no SQL executed; in execute_schema_api only after all five
\* table checks were made and at least one of them failed, and before any
\* manual instruction is printed.
C22_MissingSchemaExitsOne ==
    schema_file = "missing" =>
        /\ pc = "done" /\ exitCode = 1 /\ raised = "none"
        /\ SchemaNotFound \in out
        /\ script \in {"execute_schema", "execute_schema_api"}
        /\ script = "execute_schema" =>
              /\ conn = "none" /\ sql = <<>>
              /\ <<"Connecting", "">> \notin out
              /\ ret = "none"
        /\ script = "execute_schema_api" =>
              /\ Len(log) = Len(tables_to_check)
              /\ Len(existing_tables) < Len(tables_to_check)
              /\ ret = "False"
              /\ out \cap ManualInstructions = {}

C22_Witness ==
    /\ script = "execute_schema_api" /\ schema_file = "missing"
    /\ pc = "done" /\ exitCode = 1
    /\ Len(existing_tables) = 4
    /\ log[3].res = "fail"

====
